---- MODULE Spec2Model ----
(***************************************************************************)
(* log-genie: the telemetry Provider (pkg/telemetry/telemetry.go) and the  *)
(* OpenTelemetry log pipeline it builds (sdklog.LoggerProvider with a      *)
(* BatchProcessor over an otlploghttp exporter).                           *)
(*                                                                         *)
(* Goroutines of the model:                                                *)
(*   callers    the goroutines calling Provider.SendLog                    *)
(*   shutdown   the goroutine calling Provider.Shutdown                    *)
(*   reporter   Provider.reportLogsSent                                    *)
(*   prober     the startup testDirectPost and the 10s prober loop         *)
(*   poll       the BatchProcessor's poll goroutine                        *)
(*   exporter   the BatchProcessor's export goroutine (buffer exporter)    *)
(* The poll ticker is driven by Tick, which counts seconds; the deadlines  *)
(* of an export and of Shutdown expire by actions of their own.            *)
(***************************************************************************)
EXTENDS Naturals, Integers, Sequences, FiniteSets, TLC

\* ---------------------------------------------------------------- bounds
\* Number of SendLog calls of a behaviour.
MaxSends == 4
\* Number of Shutdown calls of a behaviour.
MaxShutdowns == 2
\* Number of ticks of the self-report ticker of a behaviour.
MaxReports == 2
\* Number of ticks of the prober ticker of a behaviour.
MaxProbes == 1
\* sdklog.WithMaxQueueSize(2048), scaled down so that the queue fills.
maxQueueSize == 3
\* sdklog.WithExportMaxBatchSize(10), scaled down likewise.
maxBatchSize == 2
\* Length of the endpoint strings tried, after their scheme.
MaxEndpointLen == 3

\* ------------------------------------------------------ program constants
\* sdklog.WithExportTimeout(5*time.Second): the deadline of one export.
exportTimeout == 5
\* New passes no WithExportInterval: the processor polls every second.
exportInterval == 1
\* New passes no WithExportBufferSize: one batch may wait for the exporter.
expBufferSize == 1

\* time.Now() when New runs, in minutes since the zero time.Time (January 1
\* of year 1, 00:00 UTC): a day of the year 2026.
ConstructedAt == 1065000000

\* The largest time.Duration (1<<63 - 1 nanoseconds), in whole minutes.
maxDuration == 153722867

Callers == {"g1", "g2"}

VARIABLES
    enabled,          \* Provider.enabled
    showResponses,    \* Provider.showResponses
    cancelled,        \* Provider.ctx is done (Provider.cancel was called)
    logCount,         \* Provider.logCount
    lastReport,       \* Provider.lastReport, in minutes since the zero time.Time
    pc,               \* position of each SendLog caller
    okReturns,        \* SendLog calls that returned nil
    errReturns,       \* SendLog calls that returned the not-enabled error
    rptPc,            \* position of reportLogsSent
    rptCount,         \* its local variable count
    rptTicks,         \* ticks of its ticker so far
    reported,         \* history: sum of the counts it has printed
    rptLine,       \* the count, elapsed time and rate of its last report
    probePc,          \* the startup goroutine running testDirectPost
    proberPc,         \* the prober loop
    proberTicks,      \* ticks of the prober ticker so far
    probeOut,         \* what the last testDirectPost printed
    lpStopped,        \* LoggerProvider.stopped
    bpStopped,        \* BatchProcessor.stopped
    q,                \* BatchProcessor.q, oldest record first
    nextId,           \* identity of the next record enqueued
    dropped,          \* queue.dropped: records overwritten since the last poll
    pollTrigger,      \* BatchProcessor.pollTrigger holds a signal
    pollKill,         \* BatchProcessor.pollKill is closed
    tickerReady,      \* the poll ticker's channel holds a tick
    pollTimer,        \* seconds until the poll ticker fires
    pollPc,           \* the poll goroutine
    input,            \* bufferExporter.input
    inputClosed,      \* bufferExporter.input is closed
    bufStopped,       \* bufferExporter.stopped
    inflight,         \* the export the export goroutine is running
    expPc,            \* the export goroutine
    resp,             \* the response channel of the final flush
    transportCloses,  \* Shutdown calls that reached the otlploghttp exporter
    panicked,         \* a goroutine panicked
    sdPc,             \* position of the Shutdown caller
    sdExpired,        \* the deadline of Shutdown's context has passed
    sdRecs,           \* the records Shutdown took with q.Flush()
    sdReturns,        \* Shutdown calls that returned
    sdErr,            \* the error LoggerProvider.Shutdown is about to return
    sdQueued,         \* history: records queued when Shutdown stopped the processor
    finalFlushes,     \* history: q.Flush() calls of the shutdown path
    handed,           \* history: records passed to the Export Client
    lastKind,         \* history: what woke the poll goroutine for its last dispatch
    sinceFlush,       \* history: seconds since that dispatch (saturating)
    resent,           \* history: records passed to the Export Client again
    failed,           \* history: records of an Export call that failed
    timed,            \* whether this behaviour records sinceFlush and failed
    args,             \* the (level, message, fields) arguments the callers pass
    emitted,          \* history: per enqueued record, its arguments and its log.Record
    lost,             \* history: records overwritten in the full queue
    endpoint,         \* Provider.endpoint, a string as the sequence of its characters
    hostPort,         \* Provider.hostPort
    path,             \* Provider.path
    cfgTelemetry,     \* logger.Config.TelemetryEnabled
    cfgLocal,         \* logger.Config.LocalLogEnabled
    newFails,         \* telemetry.New returns an error (otlploghttp.New failed)
    lg,               \* the Logger: telemetryEnabled, localLogEnabled, telemetry != nil
    genPc,            \* position of the generator goroutine in Generate...Log
    genKind,          \* which of the two generators it runs
    genBase,          \* SendLog calls begun before the current log
    genCount,         \* logs generated so far
    localWrites,      \* logs passed to the local logger so far
    flagRate,         \* the value of the -rate flag
    envRate,          \* LOG_GENIE_RATE, a string as the sequence of its characters
    rate,             \* *rate of Main
    interval,         \* interval of Main, in nanoseconds
    mainPc            \* position of Main

provVars == <<enabled, showResponses, cancelled, logCount, lastReport>>
callVars == <<pc, okReturns, errReturns>>
rptVars  == <<rptPc, rptCount, rptTicks, reported, rptLine>>
prbVars  == <<probePc, proberPc, proberTicks, probeOut>>
qVars    == <<q, nextId, dropped, pollTrigger>>
pollVars == <<pollKill, tickerReady, pollTimer, pollPc>>
expVars  == <<input, inputClosed, bufStopped, inflight, expPc, resp,
              transportCloses>>
sdVars   == <<lpStopped, bpStopped, panicked, sdPc, sdExpired, sdRecs,
              sdReturns, sdErr, sdQueued, finalFlushes>>
histVars == <<handed, lastKind, sinceFlush, resent, failed, timed>>

recVars  == <<args, emitted, lost>>

lgVars   == <<cfgTelemetry, cfgLocal, newFails, lg, genPc, genKind, genBase,
              genCount, localWrites>>

epVars   == <<endpoint, hostPort, path>>

mainVars == <<flagRate, envRate, rate, interval, mainPc>>

vars == <<provVars, callVars, rptVars, prbVars, qVars, pollVars, expVars,
          sdVars, histVars, recVars, lgVars, epVars, mainVars>>

\* ---------------------------------------------------------------- helpers
Min(a, b) == IF a < b THEN a ELSE b

Range(s) == {s[i] : i \in 1..Len(s)}

Take(s, n) == SubSeq(s, 1, Min(n, Len(s)))

Drop(s, n) == SubSeq(s, Min(n, Len(s)) + 1, Len(s))

\* No report printed yet.
NoReport == [count |-> 0, elapsed |-> 0, rate |-> <<0, 0>>]

NoExport == [busy |-> FALSE, cur |-> <<>>, rest |-> <<>>, sync |-> FALSE]

\* SendLog calls started so far.
sends == okReturns + errReturns + Cardinality({c \in Callers : pc[c] # "idle"})

\* ------------------------------------------------- arguments of SendLog
\* A Go value passed in fields is written as its dynamic type and its %v
\* text. The callers of a behaviour pass one of these arguments: the
\* example call, a call with one field of each type of the type switch and
\* one of another type, and a call with a level the package does not name
\* and no field.
DefaultArgs ==
    [level |-> "info", message |-> "test",
     fields |-> ("k" :> [type |-> "string", text |-> "v"])]

ArgSet ==
    { DefaultArgs,
      [level |-> "error", message |-> "boom",
       fields |-> ("service" :> [type |-> "string", text |-> "api"])
                  @@ ("status_code" :> [type |-> "int", text |-> "500"])
                  @@ ("timestamp" :> [type |-> "int64", text |-> "17"])
                  @@ ("ratio" :> [type |-> "float64", text |-> "0.5"])
                  @@ ("ok" :> [type |-> "bool", text |-> "true"])
                  @@ ("n" :> [type |-> "int32", text |-> "7"])],
      [level |-> "trace", message |-> "",
       fields |-> [k \in {} |-> [type |-> "string", text |-> ""]]] }

\* ------------------------------------------------------------ parseEndpoint
Http == <<"h", "t", "t", "p", ":", "/", "/">>

Https == <<"h", "t", "t", "p", "s", ":", "/", "/">>

\* defaultTelemetryEndpoint of Main: "collector:4318"
DefaultEndpoint ==
    <<"c", "o", "l", "l", "e", "c", "t", "o", "r", ":", "4", "3", "1", "8">>

\* "http://collector:4318/v1/logs"
PathEndpoint ==
    Http \o DefaultEndpoint \o <<"/", "v", "1", "/", "l", "o", "g", "s">>

\* The endpoint strings tried: nothing, a scheme, a doubled, a cut or a
\* misplaced scheme, followed by every string of at most MaxEndpointLen of
\* the characters a : /, and the two endpoints above.
Endpoints ==
    { pre \o rest :
        pre \in {<<>>, Http, Https, Http \o Https, SubSeq(Http, 1, 6),
                  <<"a">> \o Http},
        rest \in UNION {[1..n -> {"a", ":", "/"}] : n \in 0..MaxEndpointLen} }
    \cup {DefaultEndpoint, PathEndpoint}

\* strings.HasPrefix
HasPrefix(str, pre) ==
    Len(str) >= Len(pre) /\ SubSeq(str, 1, Len(pre)) = pre

\* strings.TrimPrefix
TrimPrefix(str, pre) ==
    IF HasPrefix(str, pre) THEN SubSeq(str, Len(pre) + 1, Len(str)) ELSE str

\* A resolver that leaves the scheme in place.
StripScheme_keep(e) == e

\* The if / else if over the two schemes: one of them is trimmed, once.
StripScheme(e) ==
    IF HasPrefix(e, Http) THEN TrimPrefix(e, Http)
    ELSE IF HasPrefix(e, Https) THEN TrimPrefix(e, Https)
    ELSE e

\* A split at the last separator.
SepIndex_last(str, ch) ==
    IF \E i \in 1..Len(str) : str[i] = ch
    THEN CHOOSE i \in 1..Len(str) :
            str[i] = ch /\ \A j \in (i + 1)..Len(str) : str[j] # ch
    ELSE 0

\* strings.Index: the position of the first ch in str, 0 for none.
SepIndex(str, ch) ==
    IF \E i \in 1..Len(str) : str[i] = ch
    THEN CHOOSE i \in 1..Len(str) :
            str[i] = ch /\ \A j \in 1..(i - 1) : str[j] # ch
    ELSE 0

\* strings.SplitN(str, "/", 2): the whole string, or the parts before and
\* after the first separator.
SplitN2(str) ==
    LET i == SepIndex(str, "/") IN
    IF i = 0 THEN <<str>>
    ELSE <<SubSeq(str, 1, i - 1), SubSeq(str, i + 1, Len(str))>>

\* parseEndpoint(endpoint)
parseEndpoint(e) ==
    LET parts == SplitN2(StripScheme(e)) IN
    [hostPort |-> parts[1],
     path |-> IF Len(parts) > 1 THEN <<"/">> \o parts[2] ELSE <<>>]

\* --------------------------------------------------------------------- Main
\* const defaultRate
defaultRate == 10

\* time.Second, in nanoseconds.
Second == 1000000000

\* The values of the -rate flag of a behaviour: flag.Int accepts every
\* integer.
FlagRates == {-1, 0, 1, defaultRate, Second, Second + 1}

\* The values of LOG_GENIE_RATE of a behaviour; the empty string is also the
\* value of a variable that is not set.
EnvRates ==
    {<<>>, <<"x">>, <<"0">>, <<"-", "3">>, <<"+", "5">>, <<"2", "0">>,
     <<"2", "0", "0", "0", "0", "0", "0", "0", "0", "0">>}

DecimalDigits == <<"0", "1", "2", "3", "4", "5", "6", "7", "8", "9">>

IsDigit(ch) == \E i \in 1..10 : DecimalDigits[i] = ch

DigitOf(ch) == (CHOOSE i \in 1..10 : DecimalDigits[i] = ch) - 1

RECURSIVE ParseUint(_, _)
ParseUint(str, acc) ==
    IF str = <<>> THEN acc
    ELSE ParseUint(Tail(str), 10 * acc + DigitOf(Head(str)))

\* strconv.Atoi(s): an optional sign and decimal digits, an error for
\* anything else.
Atoi(str) ==
    LET signed == str # <<>> /\ Head(str) \in {"+", "-"}
        digits == IF signed THEN Tail(str) ELSE str
    IN  IF digits = <<>> \/ \E i \in 1..Len(digits) : ~IsDigit(digits[i])
        THEN [err |-> TRUE, val |-> 0]
        ELSE [err |-> FALSE,
              val |-> IF Head(str) = "-" THEN 0 - ParseUint(digits, 0)
                      ELSE ParseUint(digits, 0)]

\* The quotient of Go's integer division, which truncates toward zero.
Quo(a, b) ==
    LET abs(x) == IF x < 0 THEN 0 - x ELSE x
    IN  IF (a < 0) = (b < 0) THEN abs(a) \div abs(b)
        ELSE 0 - (abs(a) \div abs(b))

\* The division time.Second / time.Duration(*rate) panics for a zero
\* divisor.
IntervalPanics(r) == r = 0

\* time.NewTicker(d) panics for a non-positive d.
NewTickerPanics(d) == d <= 0

\* --------------------------------------------------------------- logger.New
\* A flag taken from the configuration as it is.
LocalLogEnabled_asConfigured(cfgT, cfgL) == cfgL

\* localLogEnabled: config.LocalLogEnabled || !config.TelemetryEnabled
LocalLogEnabled(cfgT, cfgL) == cfgL \/ ~cfgT

\* A constructor that keeps the configured flags when telemetry.New fails.
NewLogger_noFallback(cfgT, cfgL, fails) ==
    [telemetryEnabled |-> cfgT, localLogEnabled |-> (cfgL \/ ~cfgT),
     telemetry |-> (cfgT /\ ~fails), err |-> (cfgT /\ fails)]

\* logger.New(config): localLogEnabled is LocalLogEnabled || !TelemetryEnabled;
\* with telemetry configured, telemetry.New is called, and when it fails the
\* Logger is returned (with the error) with telemetryEnabled false,
\* localLogEnabled true and no Provider.
NewLogger(cfgT, cfgL, fails) ==
    IF cfgT /\ fails
    THEN [telemetryEnabled |-> FALSE, localLogEnabled |-> TRUE,
          telemetry |-> FALSE, err |-> TRUE]
    ELSE [telemetryEnabled |-> cfgT,
          localLogEnabled |-> LocalLogEnabled(cfgT, cfgL),
          telemetry |-> cfgT, err |-> FALSE]

\* ------------------------------------------------------------ Provider.New
\* A constructor without the early return of a disabled Provider.
Started_always == TRUE

\* if !p.enabled { return p, nil }: New goes on to create the context, the
\* exporter, the processor and the goroutines only for an enabled Provider.
Started == enabled

\* A constructor that starts the probes whatever showResponses says.
ProberStarted_always == Started

\* if p.showResponses, twice in New: go p.testDirectPost() and the prober
\* loop.
ProberStarted == Started /\ showResponses

\* New(config): the Provider and the goroutines New has started.
Init ==
    /\ enabled \in BOOLEAN
    /\ showResponses \in BOOLEAN
    /\ cancelled = FALSE
    /\ logCount = 0
    /\ lastReport = 0
    /\ pc = [c \in Callers |-> "idle"]
    /\ okReturns = 0
    /\ errReturns = 0
    /\ rptPc = IF Started THEN "select" ELSE "none"
    /\ rptCount = 0
    /\ rptTicks = 0
    /\ reported = 0
    /\ rptLine = NoReport
    /\ probePc = IF ProberStarted THEN "start" ELSE "none"
    /\ proberPc = IF ProberStarted THEN "select" ELSE "none"
    /\ proberTicks = 0
    /\ probeOut = "none"
    /\ lpStopped = FALSE
    /\ bpStopped = FALSE
    /\ q = <<>>
    /\ nextId = 1
    /\ dropped = 0
    /\ pollTrigger = FALSE
    /\ pollKill = FALSE
    /\ tickerReady = FALSE
    /\ pollTimer = exportInterval
    /\ pollPc = IF Started THEN "select" ELSE "none"
    /\ input = <<>>
    /\ inputClosed = FALSE
    /\ bufStopped = FALSE
    /\ inflight = NoExport
    /\ expPc = IF Started THEN "run" ELSE "none"
    /\ resp = "none"
    /\ transportCloses = 0
    /\ panicked = FALSE
    /\ sdPc = "idle"
    /\ sdExpired = FALSE
    /\ sdRecs = <<>>
    /\ sdReturns = 0
    /\ sdErr = "none"
    /\ sdQueued = {}
    /\ finalFlushes = 0
    /\ handed = {}
    /\ lastKind = "none"
    /\ sinceFlush = 0
    /\ resent = {}
    /\ failed = {}
    /\ timed \in BOOLEAN
    /\ args \in {{a} : a \in ArgSet}
    /\ emitted = <<>>
    /\ lost = {}
    /\ endpoint \in Endpoints
    /\ hostPort = parseEndpoint(endpoint).hostPort
    /\ path = parseEndpoint(endpoint).path
    /\ cfgTelemetry \in BOOLEAN
    /\ cfgLocal \in BOOLEAN
    /\ newFails \in BOOLEAN
    /\ lg = NewLogger(cfgTelemetry, cfgLocal, newFails)
    /\ genPc = "idle"
    /\ genKind = "none"
    /\ genBase = 0
    /\ genCount = 0
    /\ localWrites = 0
    /\ flagRate \in FlagRates
    /\ envRate \in EnvRates
    /\ rate = flagRate
    /\ interval = 0
    /\ mainPc = "env"

\* -------------------------------------------------------- Provider.SendLog
\* The check with the enabled test inverted.
NotEnabled_inverted == enabled

\* if !p.enabled || p.logger == nil: p.logger is set exactly when New ran
\* past the enabled check.
NotEnabled == ~enabled

\* An increment that counts a call twice.
CounterAdd_twice(n) == n + 2

\* p.logCount.Add(1)
CounterAdd(n) == n + 1

\* A bounded queue that refuses the incoming record when full.
Enqueue_dropNewest(queue, r) ==
    IF Len(queue) >= maxQueueSize THEN queue ELSE Append(queue, r)

\* A queue that puts the incoming record in front.
Enqueue_prepend(queue, r) ==
    IF Len(queue) >= maxQueueSize
    THEN <<r>> \o SubSeq(queue, 1, Len(queue) - 1)
    ELSE <<r>> \o queue

\* queue.Enqueue of the BatchProcessor's ring: a full ring overwrites its
\* oldest record with the incoming one.
Enqueue(queue, r) ==
    IF Len(queue) >= maxQueueSize
    THEN Append(Tail(queue), r)
    ELSE Append(queue, r)

\* switch level: the log.Severity of the four named levels; any other level
\* leaves the zero value.
SeverityOf(level) ==
    CASE level = "debug" -> 5
      [] level = "info" -> 9
      [] level = "warn" -> 13
      [] level = "error" -> 17
      [] OTHER -> 0

\* A conversion that turns every field value into a string.
AttrOf_stringified(v) == [kind |-> "String", text |-> v.text]

\* switch val := v.(type): log.String, log.Int, log.Int64, log.Float64,
\* log.Bool, and for any other type log.String of fmt.Sprintf("%v", val).
AttrOf(v) ==
    [kind |-> CASE v.type = "string" -> "String"
                [] v.type = "int" -> "Int64"
                [] v.type = "int64" -> "Int64"
                [] v.type = "float64" -> "Float64"
                [] v.type = "bool" -> "Bool"
                [] OTHER -> "String",
     text |-> v.text]

\* The log.Record SendLog builds (the timestamp is left out); the order of
\* the attributes follows the iteration of the map and is not modelled.
BuildRecord(a) ==
    [severity |-> SeverityOf(a.level),
     severityText |-> a.level,
     body |-> [kind |-> "String", text |-> a.message],
     attrs |-> [k \in DOMAIN a.fields |-> AttrOf(a.fields[k])]]

\* A processor that exports on the caller's goroutine: the emit waits for
\* the export in flight.
EmitReady_sync == ~inflight.busy

\* OnEmit takes the queue's lock only, which no goroutine holds while it
\* waits: the emit is never held up by the state of the pipeline.
EmitReady == TRUE

\* SendLog up to p.logger.Emit(p.ctx, *record): the not-enabled check (of
\* fields that never change), the record, and BatchProcessor.OnEmit, which
\* ignores the record once stopped, else enqueues it and signals the poll
\* goroutine when the queue holds a full batch.
SendLogCall(c) ==
    /\ pc[c] = "idle"
    /\ sends < MaxSends
    /\ IF NotEnabled
       THEN /\ errReturns' = errReturns + 1
            /\ UNCHANGED <<pc, qVars, recVars>>
       ELSE /\ EmitReady
            /\ errReturns' = errReturns
            /\ pc' = [pc EXCEPT ![c] = "add"]
            /\ IF bpStopped
               THEN UNCHANGED <<qVars, recVars>>
               ELSE /\ q' = Enqueue(q, nextId)
                    /\ nextId' = nextId + 1
                    /\ dropped' = IF Len(q) >= maxQueueSize THEN dropped + 1
                                  ELSE dropped
                    /\ pollTrigger' = (pollTrigger \/ Len(q') >= maxBatchSize)
                    /\ \E a \in args :
                          emitted' = Append(emitted,
                                            [args |-> a, rec |-> BuildRecord(a)])
                    /\ lost' = lost \cup ((Range(q) \cup {nextId}) \ Range(q'))
                    /\ args' = args
    /\ UNCHANGED <<mainVars, epVars, lgVars, provVars, okReturns, rptVars, prbVars,
                   pollVars, expVars, sdVars, histVars>>

\* p.logCount.Add(1); return nil
Add(c) ==
    /\ pc[c] = "add"
    /\ pc' = [pc EXCEPT ![c] = "idle"]
    /\ logCount' = CounterAdd(logCount)
    /\ okReturns' = okReturns + 1
    /\ UNCHANGED <<mainVars, epVars, lgVars, recVars, enabled, showResponses, cancelled,
                   lastReport, errReturns, rptVars, prbVars, qVars, pollVars,
                   expVars, sdVars, histVars>>

\* GetLogCount(): p.logCount.Load()
GetLogCount == logCount

\* ------------------------------------- Logger.GenerateRandomLog / ErrorLog
\* The generator goroutine of Main calls GenerateRandomLog or
\* GenerateRandomErrorLog at a tick: the fake data, then
\* if l.telemetryEnabled && l.telemetry != nil.
GenStart ==
    /\ genPc = "idle"
    /\ genCount < MaxSends
    /\ \E k \in {"random", "error"} : genKind' = k
    /\ genBase' = sends
    /\ genPc' = IF lg.telemetryEnabled /\ lg.telemetry THEN "send" ELSE "local"
    /\ UNCHANGED <<mainVars, epVars, cfgTelemetry, cfgLocal, newFails, lg, genCount,
                   localWrites, provVars, callVars, rptVars, prbVars, qVars,
                   pollVars, expVars, sdVars, histVars, recVars>>

\* err := l.telemetry.SendLog(level, message, fields)
LoggerSendLog ==
    /\ genPc = "send"
    /\ sends = genBase
    /\ SendLogCall("g1")

\* SendLog has returned, or was not called: if l.localLogEnabled, the entry
\* goes to the local logger at its level.
GenLocal ==
    /\ \/ genPc = "local"
       \/ genPc = "send" /\ sends > genBase /\ pc["g1"] = "idle"
    /\ localWrites' = IF lg.localLogEnabled THEN localWrites + 1
                       ELSE localWrites
    /\ genCount' = genCount + 1
    /\ genPc' = "idle"
    /\ UNCHANGED <<mainVars, epVars, cfgTelemetry, cfgLocal, newFails, lg, genKind,
                   genBase, provVars, callVars, rptVars, prbVars, qVars,
                   pollVars, expVars, sdVars, histVars, recVars>>

\* --------------------------------------------------------------------- Main
\* if envRate := os.Getenv("LOG_GENIE_RATE"); envRate != "" { if r, err :=
\* strconv.Atoi(envRate); err == nil { *rate = r } }
MainEnv ==
    /\ mainPc = "env"
    /\ rate' = IF envRate # <<>> /\ ~Atoi(envRate).err THEN Atoi(envRate).val
               ELSE rate
    /\ mainPc' = "interval"
    /\ UNCHANGED <<flagRate, envRate, interval, epVars, lgVars, recVars,
                   provVars, callVars, rptVars, prbVars, qVars, pollVars,
                   expVars, sdVars, histVars>>

\* interval := time.Second / time.Duration(*rate), after logger.New has
\* returned the Logger.
MainInterval ==
    /\ mainPc = "interval"
    /\ IF IntervalPanics(rate)
       THEN /\ mainPc' = "panic"
            /\ interval' = interval
       ELSE /\ mainPc' = "ticker"
            /\ interval' = Quo(Second, rate)
    /\ UNCHANGED <<flagRate, envRate, rate, epVars, lgVars, recVars,
                   provVars, callVars, rptVars, prbVars, qVars, pollVars,
                   expVars, sdVars, histVars>>

\* ticker := time.NewTicker(interval); the generator goroutine is started.
MainTicker ==
    /\ mainPc = "ticker"
    /\ mainPc' = IF NewTickerPanics(interval) THEN "panic" ELSE "running"
    /\ UNCHANGED <<flagRate, envRate, rate, interval, epVars, lgVars, recVars,
                   provVars, callVars, rptVars, prbVars, qVars, pollVars,
                   expVars, sdVars, histVars>>

\* for range ticker.C: the generator goroutine calls one of the two
\* generators at a tick.
MainGenerate ==
    /\ mainPc = "running"
    /\ GenStart

\* ------------------------------------------------- Provider.reportLogsSent
\* Loops that select on their ticker only.
CtxDone_never == FALSE

\* case <-p.ctx.Done() of the background loops.
CtxDone == cancelled

\* time.Now() at the k-th tick of the one-minute ticker New's goroutine
\* creates, in minutes since the zero time.Time.
Now(k) == ConstructedAt + k

\* An elapsed time taken after lastReport was set to now.
Elapsed_zero(now, last) == 0

\* now.Sub(p.lastReport), in minutes: Time.Sub returns the largest Duration
\* when the difference exceeds it.
Elapsed(now, last) == Min(now - last, maxDuration)

\* rate := float64(count) / elapsed, as the pair of its numerator and its
\* denominator.
Rate(count, elapsed) == <<count, elapsed>>

\* case <-ticker.C: count := p.logCount.Load(); now := time.Now(); the
\* report and the reset follow if elapsed > 0.
ReporterTick ==
    /\ rptPc = "select"
    /\ rptTicks < MaxReports
    /\ rptTicks' = rptTicks + 1
    /\ rptCount' = logCount
    /\ rptPc' = IF Elapsed(Now(rptTicks + 1), lastReport) > 0 THEN "store"
                 ELSE "select"
    /\ UNCHANGED <<reported, rptLine, mainVars, epVars, lgVars, recVars, provVars, callVars,
                   prbVars, qVars, pollVars, expVars, sdVars, histVars>>

\* Printf of count, elapsed and rate; p.logCount.Store(0);
\* p.lastReport = now
ReporterStore ==
    /\ rptPc = "store"
    /\ LET elapsed == Elapsed(Now(rptTicks), lastReport)
       IN  rptLine' = [count |-> rptCount, elapsed |-> elapsed,
                          rate |-> Rate(rptCount, elapsed)]
    /\ logCount' = 0
    /\ lastReport' = Now(rptTicks)
    /\ reported' = reported + rptCount
    /\ rptPc' = "select"
    /\ UNCHANGED <<mainVars, epVars, lgVars, recVars, enabled, showResponses, cancelled,
                   callVars, rptCount, rptTicks, prbVars, qVars, pollVars,
                   expVars, sdVars, histVars>>

\* case <-p.ctx.Done(): return
ReporterExit ==
    /\ rptPc = "select"
    /\ CtxDone
    /\ rptPc' = "done"
    /\ UNCHANGED <<mainVars, epVars, lgVars, recVars, provVars, callVars, rptCount,
                   rptTicks, reported, rptLine, prbVars, qVars, pollVars, expVars,
                   sdVars, histVars>>

\* ------------------------------------------------ Provider.testDirectPost
\* testDirectPost(): nothing for a Provider that is not enabled or has no
\* showResponses; else one POST, of which the response body, the empty
\* response, the error of the request or the error of building it is
\* printed. The function returns no value.
testDirectPost ==
    IF ~enabled \/ ~showResponses
    THEN probeOut' = probeOut
    ELSE \E out \in {"response", "empty", "sendError", "requestError"} :
            probeOut' = out

\* go p.testDirectPost() in New
StartupProbe ==
    /\ probePc = "start"
    /\ probePc' = "done"
    /\ testDirectPost
    /\ UNCHANGED <<mainVars, epVars, lgVars, recVars, provVars, callVars, rptVars,
                   proberPc, proberTicks, qVars, pollVars, expVars, sdVars,
                   histVars>>

\* The prober loop, case <-ticker.C: p.testDirectPost()
ProberTick ==
    /\ proberPc = "select"
    /\ proberTicks < MaxProbes
    /\ proberTicks' = proberTicks + 1
    /\ testDirectPost
    /\ UNCHANGED <<mainVars, epVars, lgVars, recVars, provVars, callVars, rptVars,
                   probePc, proberPc, qVars, pollVars, expVars, sdVars,
                   histVars>>

\* The prober loop, case <-p.ctx.Done(): return
ProberExit ==
    /\ proberPc = "select"
    /\ CtxDone
    /\ proberPc' = "done"
    /\ UNCHANGED <<mainVars, epVars, lgVars, recVars, provVars, callVars, rptVars,
                   probePc, proberTicks, probeOut, qVars, pollVars, expVars,
                   sdVars, histVars>>

\* ------------------------------------------- BatchProcessor: poll goroutine
\* A dequeue without the batch size limit.
BatchOf_uncapped(queue) == queue

\* The records one dequeue, or one chunk of an export, takes: at most a
\* batch, oldest first.
BatchOf(queue) == Take(queue, maxBatchSize)

\* bufferExporter.EnqueueExport sends without blocking: there is room when
\* the input channel is not full.
InputHasRoom == Len(input) < expBufferSize

\* b.q.Dropped() (read and reset by the caller of this operator), then
\* queue.TryDequeue(buf, EnqueueExport) and the re-trigger that follows it.
\* kind names the case of the select that woke the goroutine, trig is the
\* signal left in pollTrigger by that case.
TryDequeue(kind, trig) ==
    LET batch == BatchOf(q) IN
    /\ IF batch = <<>>
       THEN UNCHANGED <<q, input, lastKind, sinceFlush>>
       ELSE IF bufStopped
       THEN /\ q' = Drop(q, Len(batch))
            /\ UNCHANGED <<input, lastKind, sinceFlush>>
       ELSE IF InputHasRoom
       THEN /\ q' = Drop(q, Len(batch))
            /\ input' = Append(input, [recs |-> batch, sync |-> FALSE])
            /\ lastKind' = kind
            /\ sinceFlush' = 0
       ELSE UNCHANGED <<q, input, lastKind, sinceFlush>>
    /\ pollTrigger' = (trig \/ Len(q') >= maxBatchSize)

\* case <-ticker.C
PollTicker ==
    /\ pollPc = "select"
    /\ tickerReady
    /\ tickerReady' = FALSE
    /\ dropped' = 0
    /\ TryDequeue("timer", pollTrigger)
    /\ UNCHANGED <<mainVars, epVars, lgVars, recVars, provVars, callVars, rptVars,
                   prbVars, nextId, pollKill, pollTimer, pollPc, inputClosed,
                   bufStopped, inflight, expPc, resp, transportCloses, sdVars,
                   handed, resent, failed, timed>>

\* case <-b.pollTrigger: ticker.Reset(interval). Whether Reset discards a
\* tick already in the channel depends on the Go release.
PollTriggered ==
    /\ pollPc = "select"
    /\ pollTrigger
    /\ pollTimer' = exportInterval
    /\ tickerReady' \in {tickerReady, FALSE}
    /\ dropped' = 0
    /\ TryDequeue("size", FALSE)
    /\ UNCHANGED <<mainVars, epVars, lgVars, recVars, provVars, callVars, rptVars,
                   prbVars, nextId, pollKill, pollPc, inputClosed, bufStopped,
                   inflight, expPc, resp, transportCloses, sdVars, handed,
                   resent, failed, timed>>

\* case <-b.pollKill: return
PollKilled ==
    /\ pollPc = "select"
    /\ pollKill
    /\ pollPc' = "done"
    /\ UNCHANGED <<mainVars, epVars, lgVars, recVars, provVars, callVars, rptVars,
                   prbVars, qVars, pollKill, tickerReady, pollTimer, expVars,
                   sdVars, histVars>>

\* One second passes: the poll ticker fires at its interval.
Tick ==
    /\ pollPc = "select"
    /\ tickerReady' = (tickerReady \/ pollTimer = 1)
    /\ pollTimer' = IF pollTimer = 1 THEN exportInterval ELSE pollTimer - 1
    /\ sinceFlush' = IF timed THEN Min(sinceFlush + 1, exportTimeout)
                   ELSE sinceFlush
    /\ UNCHANGED <<mainVars, epVars, lgVars, recVars, provVars, callVars, rptVars,
                   prbVars, qVars, pollKill, pollPc, expVars, sdVars, handed,
                   lastKind, resent, failed, timed>>

\* ----------------------------------------- BatchProcessor: export goroutine
\* for data := range e.input: the chunk exporter hands the records to the
\* Export Client in chunks of at most a batch, each under exportTimeout.
ExportStart ==
    /\ expPc = "run"
    /\ ~inflight.busy
    /\ input # <<>>
    /\ LET item == Head(input) IN
          /\ inflight' = [busy |-> TRUE, cur |-> BatchOf(item.recs),
                          rest |-> Drop(item.recs, Len(BatchOf(item.recs))),
                          sync |-> item.sync]
          /\ handed' = handed \cup Range(BatchOf(item.recs))
          /\ resent' = resent \cup (handed \cap Range(BatchOf(item.recs)))
    /\ input' = Tail(input)
    /\ UNCHANGED <<mainVars, epVars, lgVars, recVars, provVars, callVars, rptVars,
                   prbVars, qVars, pollVars, inputClosed, bufStopped, expPc,
                   resp, transportCloses, sdVars, lastKind, sinceFlush, failed,
                   timed>>

\* An export goroutine that passes a failed batch to the Export Client
\* again.
ExportOver_retry(ok) ==
    /\ inflight' = IF ok THEN NoExport ELSE inflight
    /\ handed' = handed
    /\ resent' = IF ok THEN resent ELSE resent \cup Range(inflight.cur)
    /\ failed' = IF ok \/ ~timed THEN failed
                  ELSE failed \cup Range(inflight.cur)
    /\ resp' = resp

\* One Export call of the Export Client is over with result ok: a failed
\* chunk ends the export (its error goes to the response channel of the
\* final flush, else to the error handler), a successful one is followed by
\* the next chunk.
ExportOver(ok) ==
    /\ failed' = IF ok \/ ~timed THEN failed
                  ELSE failed \cup Range(inflight.cur)
    /\ IF ok /\ inflight.rest # <<>>
       THEN /\ inflight' = [inflight EXCEPT !.cur = BatchOf(inflight.rest),
                              !.rest = Drop(inflight.rest,
                                            Len(BatchOf(inflight.rest)))]
            /\ handed' = handed \cup Range(BatchOf(inflight.rest))
            /\ resent' = resent \cup (handed \cap Range(BatchOf(inflight.rest)))
            /\ resp' = resp
       ELSE /\ inflight' = NoExport
            /\ handed' = handed
            /\ resent' = resent
            /\ resp' = IF inflight.sync
                       THEN (IF ok THEN "ok" ELSE "err")
                       ELSE resp

\* The Export call returns: success, a delivery error, or the end of the
\* export's context (after exportTimeout, or with Shutdown's context for the
\* final flush) when the Export Client does not answer.
ExportDone ==
    /\ inflight.busy
    /\ \E r \in {"ok", "error", "deadline"} : ExportOver(r = "ok")
    /\ UNCHANGED <<mainVars, epVars, lgVars, recVars, provVars, callVars, rptVars,
                   prbVars, qVars, pollVars, input, inputClosed, bufStopped,
                   expPc, transportCloses, sdVars, lastKind, sinceFlush,
                   timed>>

\* range over the closed and drained input ends: close(e.done)
ExporterExit ==
    /\ expPc = "run"
    /\ ~inflight.busy
    /\ inputClosed
    /\ input = <<>>
    /\ expPc' = "done"
    /\ UNCHANGED <<mainVars, epVars, lgVars, recVars, provVars, callVars, rptVars,
                   prbVars, qVars, pollVars, input, inputClosed, bufStopped,
                   inflight, resp, transportCloses, sdVars, histVars>>

\* ------------------------------------------------------- Provider.Shutdown
\* A Shutdown that does not cancel the context.
CancelSet_never == FALSE

\* if p.cancel != nil: New sets cancel (and ctx) after its early return.
CancelSet == Started

\* if p.logProvider != nil: New sets logProvider after its early return.
LogProviderSet == Started

\* A shutdown path without the stopped check.
ProviderStopped_never == FALSE

\* LoggerProvider.Shutdown and BatchProcessor.Shutdown return at once when
\* their stopped flag was already set (stopped.Swap(true)).
ProviderStopped == lpStopped

\* Waits of the shutdown path without the context case.
ShutdownCtxDone_never == FALSE

\* case <-ctx.Done() of the waits of the shutdown path.
ShutdownCtxDone == sdExpired

\* A shutdown that discards the queue instead of flushing it.
FlushQueue_none(queue) == <<>>

\* b.q.Flush(): every record still queued, oldest first.
FlushQueue(queue) == queue

\* p.cancel(), then the logProvider check; a disabled Provider returns here.
ShutdownCall ==
    /\ sdPc = "idle"
    /\ sdReturns < MaxShutdowns
    /\ sdErr' = "none"
    /\ cancelled' = (cancelled \/ CancelSet)
    /\ IF LogProviderSet
       THEN /\ sdPc' = "lp"
            /\ sdReturns' = sdReturns
       ELSE /\ sdPc' = "idle"
            /\ sdReturns' = sdReturns + 1
    /\ UNCHANGED <<mainVars, epVars, lgVars, recVars, enabled, showResponses, logCount,
                   lastReport, callVars, rptVars, prbVars, qVars, pollVars,
                   expVars, lpStopped, bpStopped, panicked, sdExpired, sdRecs,
                   sdQueued, finalFlushes, histVars>>

\* ctx := context.WithTimeout(5s); p.logProvider.Shutdown(ctx): the stopped
\* flags are swapped and pollKill is closed (closing it twice panics).
ShutdownProvider ==
    /\ sdPc = "lp"
    /\ sdExpired' = FALSE
    /\ IF ProviderStopped
       THEN /\ sdPc' = "idle"
            /\ sdReturns' = sdReturns + 1
            /\ UNCHANGED <<lpStopped, bpStopped, pollKill, panicked, sdQueued>>
       ELSE /\ lpStopped' = TRUE
            /\ bpStopped' = TRUE
            /\ pollKill' = TRUE
            /\ panicked' = pollKill
            /\ sdPc' = IF pollKill THEN "panic" ELSE "waitPoll"
            /\ sdReturns' = sdReturns
            /\ sdQueued' = Range(q)
    /\ UNCHANGED <<mainVars, epVars, lgVars, recVars, provVars, callVars, rptVars,
                   prbVars, qVars, tickerReady, pollTimer, pollPc, expVars,
                   sdRecs, sdErr, finalFlushes, histVars>>

\* case <-b.pollDone: b.exporter.Export(ctx, b.q.Flush()); an empty flush
\* returns at once.
ShutdownFlush ==
    /\ sdPc = "waitPoll"
    /\ pollPc = "done"
    /\ LET recs == FlushQueue(q) IN
          /\ sdRecs' = recs
          /\ sdPc' = IF recs = <<>> THEN "bufShutdown" ELSE "enqueue"
          /\ finalFlushes' = finalFlushes + 1
    /\ q' = <<>>
    /\ UNCHANGED <<mainVars, epVars, lgVars, recVars, provVars, callVars, rptVars,
                   prbVars, nextId, dropped, pollTrigger, pollVars, expVars,
                   lpStopped, bpStopped, panicked, sdExpired, sdReturns, sdErr,
                   sdQueued, histVars>>

\* bufferExporter.enqueue: e.input <- data, with a response channel.
ShutdownEnqueue ==
    /\ sdPc = "enqueue"
    /\ InputHasRoom
    /\ input' = Append(input, [recs |-> sdRecs, sync |-> TRUE])
    /\ resp' = "none"
    /\ sdRecs' = <<>>
    /\ sdPc' = "waitResp"
    /\ UNCHANGED <<mainVars, epVars, lgVars, recVars, provVars, callVars, rptVars,
                   prbVars, qVars, pollVars, inputClosed, bufStopped, inflight,
                   expPc, transportCloses, lpStopped, bpStopped, panicked,
                   sdExpired, sdReturns, sdErr, sdQueued, finalFlushes,
                   histVars>>

\* case err := <-resp
ShutdownResp ==
    /\ sdPc = "waitResp"
    /\ resp # "none"
    /\ sdErr' = IF resp = "err" THEN "export" ELSE sdErr
    /\ sdPc' = "bufShutdown"
    /\ UNCHANGED <<mainVars, epVars, lgVars, recVars, provVars, callVars, rptVars,
                   prbVars, qVars, pollVars, expVars, lpStopped, bpStopped,
                   panicked, sdExpired, sdRecs, sdReturns, sdQueued,
                   finalFlushes, histVars>>

\* The 5s of Shutdown's context are over.
ShutdownDeadline ==
    /\ sdPc \in {"waitPoll", "enqueue", "waitResp", "bufShutdown", "waitExp"}
    /\ ~sdExpired
    /\ sdExpired' = TRUE
    /\ UNCHANGED <<mainVars, epVars, lgVars, recVars, provVars, callVars, rptVars,
                   prbVars, qVars, pollVars, expVars, lpStopped, bpStopped,
                   panicked, sdPc, sdRecs, sdReturns, sdErr, sdQueued,
                   finalFlushes, histVars>>

\* case <-ctx.Done() while waiting for the poll goroutine, for room in the
\* input channel or for the response: the records in hand are dropped and
\* the shutdown goes on with the exporter.
ShutdownTimeout ==
    /\ sdPc \in {"waitPoll", "enqueue", "waitResp"}
    /\ ShutdownCtxDone
    /\ sdErr' = "deadline"
    /\ sdRecs' = <<>>
    /\ sdPc' = "bufShutdown"
    /\ UNCHANGED <<mainVars, epVars, lgVars, recVars, provVars, callVars, rptVars,
                   prbVars, qVars, pollVars, expVars, lpStopped, bpStopped,
                   panicked, sdExpired, sdReturns, sdQueued, finalFlushes,
                   histVars>>

\* bufferExporter.Shutdown: stopped.Swap(true); close(e.input)
ShutdownBuffer ==
    /\ sdPc = "bufShutdown"
    /\ IF bufStopped
       THEN /\ sdPc' = "idle"
            /\ sdReturns' = sdReturns + 1
            /\ UNCHANGED <<bufStopped, inputClosed>>
       ELSE /\ bufStopped' = TRUE
            /\ inputClosed' = TRUE
            /\ sdPc' = "waitExp"
            /\ sdReturns' = sdReturns
    /\ UNCHANGED <<mainVars, epVars, lgVars, recVars, provVars, callVars, rptVars,
                   prbVars, qVars, pollVars, input, inflight, expPc, resp,
                   transportCloses, lpStopped, bpStopped, panicked, sdExpired,
                   sdRecs, sdErr, sdQueued, finalFlushes, histVars>>

\* case <-e.done or case <-ctx.Done(): e.Exporter.Shutdown(ctx) closes the
\* otlploghttp exporter; the error is discarded (_ =) and Shutdown returns.
ShutdownExporter ==
    /\ sdPc = "waitExp"
    /\ expPc = "done" \/ ShutdownCtxDone
    /\ sdErr' = IF expPc = "done" THEN sdErr ELSE "deadline"
    /\ transportCloses' = transportCloses + 1
    /\ sdPc' = "idle"
    /\ sdReturns' = sdReturns + 1
    /\ UNCHANGED <<mainVars, epVars, lgVars, recVars, provVars, callVars, rptVars,
                   prbVars, qVars, pollVars, input, inputClosed, bufStopped,
                   inflight, expPc, resp, lpStopped, bpStopped, panicked,
                   sdExpired, sdRecs, sdQueued, finalFlushes, histVars>>

\* ----------------------------------------------------------- specification
\* The whole program: every goroutine.
Next ==
    \/ \E c \in Callers : SendLogCall(c)
    \/ \E c \in Callers : Add(c)
    \/ ReporterTick
    \/ ReporterStore
    \/ ReporterExit
    \/ StartupProbe
    \/ ProberTick
    \/ ProberExit
    \/ PollTicker
    \/ PollTriggered
    \/ PollKilled
    \/ Tick
    \/ ExportStart
    \/ ExportDone
    \/ ExporterExit
    \/ ShutdownCall
    \/ ShutdownProvider
    \/ ShutdownFlush
    \/ ShutdownEnqueue
    \/ ShutdownResp
    \/ ShutdownDeadline
    \/ ShutdownTimeout
    \/ ShutdownBuffer
    \/ ShutdownExporter

Spec == Init /\ [][Next]_vars

\* The Provider is constructed with the default endpoint of Main.
OneEndpoint == endpoint = DefaultEndpoint

\* Main is left before its first step, with the default rate.
DefaultMain == flagRate = defaultRate /\ envRate = <<>>

\* The Provider is used by callers of its own: the Logger's configuration is
\* left at its zero value.
NoLogger == ~cfgTelemetry /\ ~cfgLocal /\ ~newFails

\* The goroutines of telemetry.go itself, for an enabled and for a disabled
\* Provider: the SendLog callers, the reporter, the prober and the
\* cancellation by Shutdown; the goroutines of the BatchProcessor are not
\* scheduled.
InitProvider == OneEndpoint /\ DefaultMain /\ Init /\ ~timed /\ args = {DefaultArgs} /\ NoLogger

NextProvider ==
    \/ \E c \in Callers : SendLogCall(c)
    \/ \E c \in Callers : Add(c)
    \/ ReporterTick
    \/ ReporterStore
    \/ ReporterExit
    \/ StartupProbe
    \/ ProberTick
    \/ ProberExit
    \/ ShutdownCall

SpecProvider == InitProvider /\ [][NextProvider]_vars

\* The select of a loop takes a ready case: a loop whose context is done
\* leaves at one of its passes through the select.
FairProvider ==
    /\ SpecProvider
    /\ WF_vars(ReporterStore)
    /\ SF_vars(ReporterExit)
    /\ SF_vars(ProberExit)

\* The running pipeline, with the flush period measured: the SendLog callers
\* and the goroutines of the BatchProcessor.
InitPipeline ==
    /\ OneEndpoint
    /\ DefaultMain /\ Init /\ enabled /\ ~showResponses /\ timed /\ args = {DefaultArgs}
    /\ NoLogger

NextPipeline ==
    \/ \E c \in Callers : SendLogCall(c)
    \/ \E c \in Callers : Add(c)
    \/ PollTicker
    \/ PollTriggered
    \/ Tick
    \/ ExportStart
    \/ ExportDone

SpecPipeline == InitPipeline /\ [][NextPipeline]_vars

\* The pipeline with callers that pass, in one behaviour, any one of the
\* argument triples, and the start of a Shutdown call, which cancels the
\* context and stops the processor. The goroutines of the BatchProcessor
\* are scheduled, the poll ticker ticks and every Export call returns (at
\* the latest at its deadline).
InitRecord ==
    OneEndpoint /\ DefaultMain /\ Init /\ enabled /\ ~showResponses /\ ~timed /\ NoLogger

NextRecord ==
    \/ \E c \in Callers : SendLogCall(c)
    \/ \E c \in Callers : Add(c)
    \/ PollTicker
    \/ PollTriggered
    \/ PollKilled
    \/ Tick
    \/ ExportStart
    \/ ExportDone
    \/ ShutdownCall
    \/ ShutdownProvider

SpecRecord == InitRecord /\ [][NextRecord]_vars

FairRecord ==
    /\ SpecRecord
    /\ WF_vars(Tick)
    /\ WF_vars(PollTicker)
    /\ WF_vars(PollTriggered)
    /\ WF_vars(ExportStart)
    /\ WF_vars(ExportDone)

\* The Logger of Main, for every configuration and outcome of
\* telemetry.New: its generator goroutine, the SendLog calls it makes on its
\* Provider (which logger.New always configures as enabled) and the
\* reporter of that Provider.
InitLogger ==
    /\ OneEndpoint
    /\ DefaultMain /\ Init /\ ~showResponses /\ ~timed /\ args = {DefaultArgs}
    /\ enabled = lg.telemetry

NextLogger ==
    \/ GenStart
    \/ LoggerSendLog
    \/ \E c \in Callers : Add(c)
    \/ GenLocal
    \/ ReporterTick
    \/ ReporterStore

SpecLogger == InitLogger /\ [][NextLogger]_vars

\* Main from the flags and the environment to the running generator.
InitMain ==
    /\ OneEndpoint
    /\ Init
    /\ ~showResponses /\ ~timed /\ args = {DefaultArgs}
    /\ enabled = lg.telemetry

NextMain ==
    \/ MainEnv
    \/ MainInterval
    \/ MainTicker
    \/ MainGenerate
    \/ LoggerSendLog
    \/ \E c \in Callers : Add(c)
    \/ GenLocal

SpecMain == InitMain /\ [][NextMain]_vars

\* A Provider constructed from any of the endpoint strings, with
\* showResponses set: the callers, the probes (which read hostPort and path)
\* and the cancellation by Shutdown.
InitEndpoint ==
    /\ DefaultMain /\ Init /\ enabled /\ showResponses /\ ~timed /\ args = {DefaultArgs}
    /\ NoLogger

NextEndpoint ==
    \/ \E c \in Callers : SendLogCall(c)
    \/ \E c \in Callers : Add(c)
    \/ StartupProbe
    \/ ProberTick
    \/ ProberExit
    \/ ShutdownCall

SpecEndpoint == InitEndpoint /\ [][NextEndpoint]_vars

\* The pipeline and its shutdown, for an enabled and for a disabled
\* Provider: the SendLog callers, the Shutdown caller and the goroutines of
\* the BatchProcessor.
InitShutdown ==
    OneEndpoint /\ DefaultMain /\ Init /\ ~showResponses /\ ~timed /\ args = {DefaultArgs} /\ NoLogger

NextShutdown ==
    \/ \E c \in Callers : SendLogCall(c)
    \/ \E c \in Callers : Add(c)
    \/ PollTicker
    \/ PollTriggered
    \/ PollKilled
    \/ Tick
    \/ ExportStart
    \/ ExportDone
    \/ ExporterExit
    \/ ShutdownCall
    \/ ShutdownProvider
    \/ ShutdownFlush
    \/ ShutdownEnqueue
    \/ ShutdownResp
    \/ ShutdownDeadline
    \/ ShutdownTimeout
    \/ ShutdownBuffer
    \/ ShutdownExporter

SpecShutdown == InitShutdown /\ [][NextShutdown]_vars

\* The Shutdown caller is scheduled and the deadline of its context passes;
\* nothing is assumed of the Export Client or of the other goroutines.
FairShutdown ==
    /\ SpecShutdown
    /\ WF_vars(ShutdownProvider)
    /\ WF_vars(ShutdownFlush)
    /\ WF_vars(ShutdownEnqueue)
    /\ WF_vars(ShutdownResp)
    /\ WF_vars(ShutdownDeadline)
    /\ WF_vars(ShutdownTimeout)
    /\ WF_vars(ShutdownBuffer)
    /\ WF_vars(ShutdownExporter)

\* ------------------------------------------------------------------ claims
\* C1: on a Provider constructed with enabled=false no SendLog call gets past
\* the not-enabled check: none returns success or is left in progress, no
\* record is enqueued and the log counter stays 0, whatever SendLog and
\* Shutdown calls are made.
C1_DisabledSendLogFails ==
    ~enabled =>
        /\ GetLogCount = 0
        /\ okReturns = 0
        /\ \A c \in Callers : pc[c] = "idle"
        /\ q = <<>>

C1_Witness == ~enabled /\ errReturns >= 2 /\ sdReturns >= 1

\* C2: on an enabled Provider, before the self-report loop has reset the
\* counter, GetLogCount() equals the number of SendLog calls that returned
\* success, for every interleaving of the callers and the reporter.
C2_CountEqualsSuccesses ==
    (enabled /\ lastReport = 0) => GetLogCount = okReturns

C2_Witness ==
    /\ enabled
    /\ lastReport = 0
    /\ okReturns >= 2
    /\ rptPc = "store"
    /\ \E c \in Callers : pc[c] = "add"

\* C3 as stated: the queue never holds more than maxQueueSize records, and an
\* enqueue into a full queue drops the incoming record and keeps the queued
\* ones.
C3_Original ==
    /\ [](Len(q) <= maxQueueSize)
    /\ [][(Len(q) = maxQueueSize /\ nextId' # nextId) => q' = q]_vars

\* C3 as amended: the queue never holds more than maxQueueSize records; an
\* enqueue into a full queue drops the oldest queued record, keeps the others
\* in order and appends the incoming one, and the caller goes on to count and
\* return success.
C3_DropsOldest ==
    /\ [](Len(q) <= maxQueueSize)
    /\ [][(Len(q) = maxQueueSize /\ nextId' # nextId) =>
            /\ q' = Append(Tail(q), nextId)
            /\ dropped' = dropped + 1
            /\ \E c \in Callers : pc[c] = "idle" /\ pc'[c] = "add"]_vars

C3_Witness ==
    /\ dropped > 0
    /\ Len(q) = maxQueueSize
    /\ q[1] > 1
    /\ \E c \in Callers : pc[c] = "add"

\* C4 as stated: a batch is dispatched only when the queue has reached
\* maxBatchSize or exportTimeout has elapsed since the last flush.
C4_Original ==
    [][Len(input') > Len(input) =>
         (Len(q) >= maxBatchSize \/ sinceFlush >= exportTimeout)]_vars

\* C4 as amended: a batch is dispatched when the queue reaches maxBatchSize
\* (the size signal is raised whenever the queue holds a batch) and also at
\* a tick of the processor's ticker, which fires every exportInterval (1s,
\* not exportTimeout) whatever the time since the last flush, with at least
\* one record queued; each trigger alone dispatches, nothing else does, and
\* no batch holds more than maxBatchSize records.
C4_FlushTriggers ==
    /\ [](\A i \in 1..Len(input) :
            ~input[i].sync => Len(input[i].recs) \in 1..maxBatchSize)
    /\ [](inflight.busy => Len(inflight.cur) \in 1..maxBatchSize)
    /\ []((pollPc = "select" /\ Len(q) >= maxBatchSize) => pollTrigger)
    /\ [](pollTimer \in 1..exportInterval)
    /\ [][(Tick /\ pollTimer = 1) => tickerReady']_vars
    /\ [][(PollTicker /\ q # <<>> /\ InputHasRoom) =>
            input' = Append(input, [recs |-> Take(q, maxBatchSize),
                                    sync |-> FALSE])]_vars
    /\ [][(PollTriggered /\ q # <<>> /\ InputHasRoom) =>
            input' = Append(input, [recs |-> Take(q, maxBatchSize),
                                    sync |-> FALSE])]_vars
    /\ [][Len(input') > Len(input) => (tickerReady \/ pollTrigger)]_vars

C4_Witness ==
    /\ lastKind = "timer"
    /\ sinceFlush = 0
    /\ input # <<>>
    /\ Len(input[1].recs) < maxBatchSize

\* C5: a Shutdown call made after a Shutdown call has returned changes
\* nothing but its own position: no further flush, no second close of the
\* transport, no panic, the same Provider and pipeline state.
C5_ShutdownIdempotent ==
    /\ [](~panicked /\ finalFlushes <= 1 /\ transportCloses <= 1)
    /\ [][(sdReturns >= 1 /\ (sdPc' # sdPc \/ sdReturns' # sdReturns)) =>
            UNCHANGED <<provVars, callVars, rptVars, prbVars, qVars,
                        pollVars, expVars, lpStopped, bpStopped, panicked,
                        finalFlushes, handed>>]_vars

C5_Witness ==
    /\ enabled
    /\ sdReturns = 2
    /\ finalFlushes = 1
    /\ transportCloses = 1
    /\ handed # {}

C7_LoopsExit ==
    /\ cancelled ~> (rptPc = "done" /\ proberPc \in {"done", "none"})
    /\ [][rptPc = "done" =>
            (rptPc' = "done" /\ rptTicks' = rptTicks
                /\ lastReport' = lastReport)]_vars
    /\ [][proberPc = "done" =>
            (proberPc' = "done" /\ proberTicks' = proberTicks)]_vars

C7_Witness ==
    /\ cancelled
    /\ rptPc = "done"
    /\ proberPc = "done"
    /\ rptTicks >= 1
    /\ proberTicks >= 1

C9_ShutdownReturns ==
    /\ (sdPc # "idle") ~> (sdPc = "idle")
    /\ [](~panicked)

C9_Witness ==
    /\ sdReturns >= 1
    /\ sdErr = "deadline"
    /\ inflight.busy

\* C10: on an enabled Provider every step of a SendLog call can be taken in
\* every state of the pipeline, and the call ends by adding 1 to the counter
\* and returning success.
C10_SendLogNeverWaits ==
    /\ [](enabled =>
            \A c \in Callers :
                /\ (pc[c] = "idle" /\ sends < MaxSends)
                      => ENABLED SendLogCall(c)
                /\ pc[c] = "add" => ENABLED Add(c))
    /\ [][\A c \in Callers :
            (pc[c] = "add" /\ pc'[c] = "idle") =>
                (logCount' = logCount + 1 /\ okReturns' = okReturns + 1)]_vars

C10_Witness ==
    /\ enabled
    /\ inflight.busy
    /\ Len(q) = maxQueueSize
    /\ okReturns >= 1
    /\ \E c \in Callers : pc[c] = "add"

accepted == okReturns + Cardinality({c \in Callers : pc[c] = "add"})

\* The records on their way to the Export Client or passed to it.
inPipeline ==
    Range(q) \cup handed
        \cup UNION {Range(input[i].recs) : i \in 1..Len(input)}

C13_ResetOncePerTick ==
    /\ [][rptTicks' # rptTicks =>
            (rptPc = "select" /\ rptTicks' = rptTicks + 1
                /\ rptPc' = "store")]_vars
    /\ [][(rptPc = "store" /\ rptPc' # "store") =>
            (logCount' = 0 /\ lastReport' = Now(rptTicks)
                /\ rptPc' = "select")]_vars
    /\ [][(logCount' < logCount \/ lastReport' # lastReport) =>
            (rptPc = "store" /\ rptPc' = "select")]_vars
    /\ [](rptPc \in {"select", "done"} =>
            lastReport = IF rptTicks = 0 THEN 0 ELSE Now(rptTicks))
    /\ [](rptPc = "store" =>
            lastReport = IF rptTicks = 1 THEN 0 ELSE Now(rptTicks - 1))

C13_Witness ==
    /\ rptTicks = 2
    /\ lastReport = Now(2)
    /\ reported > 0
    /\ rptCount = 0
    /\ logCount = 0
    /\ rptPc = "select"

\* Records in the order of their enqueueing: the identities are given out in
\* that order.
InEnqueueOrder(s) == \A i, j \in 1..Len(s) : i < j => s[i] < s[j]

\* C14: the queue, every batch waiting for the export goroutine and every
\* batch passed to the Export Client hold their records in the order in
\* which SendLog enqueued them, and a dispatch takes the oldest records of
\* the queue, for every interleaving of callers, poll goroutine, export
\* goroutine and Shutdown.
C14_BatchFifo ==
    /\ [](InEnqueueOrder(q))
    /\ [](\A i \in 1..Len(input) : InEnqueueOrder(input[i].recs))
    /\ [](inflight.busy => InEnqueueOrder(inflight.cur \o inflight.rest))
    /\ [][(Len(input') > Len(input) /\ ~input'[Len(input')].sync) =>
            /\ input'[Len(input')].recs = Take(q, Len(input'[Len(input')].recs))
            /\ q' = Drop(q, Len(input'[Len(input')].recs))]_vars

C14_Witness ==
    /\ inflight.busy
    /\ Len(inflight.cur) = maxBatchSize
    /\ input # <<>>
    /\ Len(input[1].recs) >= 2
    /\ \E c \in Callers : pc[c] = "add"

\* C15: a Provider constructed with enabled=false has no goroutine (no
\* reporter, no startup probe, no prober, no processor goroutine), no
\* context or cancel function and no log provider, in every reachable state,
\* and a Shutdown call on it returns with nothing changed.
C15_DisabledInert ==
    /\ [](~enabled =>
            /\ rptPc = "none" /\ probePc = "none" /\ proberPc = "none"
            /\ pollPc = "none" /\ expPc = "none"
            /\ rptTicks = 0 /\ proberTicks = 0
            /\ ~CancelSet /\ ~LogProviderSet /\ ~cancelled)
    /\ [][(~enabled /\ (sdReturns' # sdReturns \/ sdPc' # sdPc)) =>
            /\ sdPc' = "idle" /\ sdReturns' = sdReturns + 1
            /\ UNCHANGED <<provVars, callVars, rptVars, prbVars, qVars,
                           pollVars, expVars, lpStopped, bpStopped, panicked,
                           sdExpired, sdRecs, sdErr, sdQueued, finalFlushes,
                           histVars, recVars>>]_vars

C15_Witness ==
    /\ ~enabled
    /\ showResponses
    /\ sdReturns = 2
    /\ errReturns >= 1

BeginsWith(str, pre) ==
    Len(str) >= Len(pre) /\ \A i \in 1..Len(pre) : str[i] = pre[i]

\* C17: for every endpoint string the resolver returns a result, and with
\* rest the endpoint without one leading "http://" or "https://": when rest
\* has no "/", hostPort is rest and path is empty; otherwise hostPort is
\* rest before its first "/" and path is rest from that "/" on. The two
\* example endpoints resolve as stated.
C17_ResolverResult ==
    /\ \E sch \in {<<>>, Http, Https} :
          /\ BeginsWith(endpoint, sch)
          /\ sch = <<>> =>
                (~BeginsWith(endpoint, Http) /\ ~BeginsWith(endpoint, Https))
          /\ LET rest == SubSeq(endpoint, Len(sch) + 1, Len(endpoint)) IN
                \/ /\ \A i \in 1..Len(rest) : rest[i] # "/"
                   /\ hostPort = rest
                   /\ path = <<>>
                \/ \E i \in 1..Len(rest) :
                      /\ rest[i] = "/"
                      /\ \A j \in 1..(i - 1) : rest[j] # "/"
                      /\ hostPort = SubSeq(rest, 1, i - 1)
                      /\ path = SubSeq(rest, i, Len(rest))
    /\ endpoint = PathEndpoint =>
          /\ hostPort = DefaultEndpoint
          /\ path = <<"/", "v", "1", "/", "l", "o", "g", "s">>
    /\ endpoint = DefaultEndpoint =>
          (hostPort = DefaultEndpoint /\ path = <<>>)

C17_Witness ==
    /\ endpoint = Https \o <<"a", "/", "/">>
    /\ hostPort = <<"a">>
    /\ path = <<"/", "/">>

\* C18: for every endpoint string, hostPort holds no "/" and does not begin
\* with "http://" or "https://", path is empty or begins with "/", and no
\* operation of the Provider changes hostPort or path after construction.
C18_EndpointInvariant ==
    /\ [](\A i \in 1..Len(hostPort) : hostPort[i] # "/")
    /\ [](~BeginsWith(hostPort, Http) /\ ~BeginsWith(hostPort, Https))
    /\ [](path = <<>> \/ path[1] = "/")
    /\ [][hostPort' = hostPort /\ path' = path /\ endpoint' = endpoint]_vars

C18_Witness ==
    /\ BeginsWith(endpoint, Http \o Https)
    /\ Len(path) >= 3
    /\ okReturns >= 1
    /\ probePc = "done"
    /\ proberTicks >= 1
    /\ cancelled

\* C19: the startup probe and the prober loop exist only on an enabled
\* Provider with showResponses; the startup probe runs once, the loop probes
\* once per tick it receives and leaves only when the context is cancelled,
\* after which it probes no more; a probe, whatever its outcome, changes
\* nothing but what it prints: not the counter, not the queue, not the
\* result of any SendLog or Shutdown call.
C19_ProberFrame ==
    /\ [](~(enabled /\ showResponses) =>
            (probePc = "none" /\ proberPc = "none" /\ proberTicks = 0
                /\ probeOut = "none"))
    /\ [][probePc' # probePc => (probePc = "start" /\ probePc' = "done")]_vars
    /\ [][proberPc' # proberPc =>
            (proberPc = "select" /\ proberPc' = "done" /\ cancelled)]_vars
    /\ [][probeOut' # probeOut =>
            (probePc' # probePc \/ proberTicks' = proberTicks + 1)]_vars
    /\ [][proberTicks' # proberTicks =>
            (proberPc = "select" /\ proberTicks' = proberTicks + 1)]_vars
    /\ [][(probePc' # probePc \/ proberTicks' # proberTicks
              \/ probeOut' # probeOut) =>
            UNCHANGED <<provVars, callVars, rptVars, qVars, pollVars,
                        expVars, sdVars, histVars, recVars, epVars>>]_vars

C19_Witness ==
    /\ enabled
    /\ showResponses
    /\ probePc = "done"
    /\ proberTicks >= 1
    /\ probeOut = "sendError"
    /\ logCount >= 1
    /\ errReturns = 0

\* C20: in every reachable state the counts the self-report loop has
\* reported so far plus the current GetLogCount() equal the number of
\* SendLog calls that returned success.
C20_NoCountLost ==
    enabled => reported + GetLogCount = okReturns

\* C21: every self-report prints as elapsed time the time since the previous
\* report, and the first one the time since the Provider was constructed,
\* and as rate the count it read divided by that time.
C21_ElapsedSincePrevious ==
    [][(rptPc = "store" /\ rptPc' = "select") =>
          LET since == IF lastReport = 0 THEN ConstructedAt ELSE lastReport
          IN  /\ rptLine'.elapsed = Now(rptTicks) - since
              /\ rptLine'.rate = <<rptCount, Now(rptTicks) - since>>]_vars

\* C22: once Shutdown has returned on an enabled Provider, no SendLog call
\* that begins later is accepted: none gets past the not-enabled check to
\* emit a record, add to the counter and return success.
C22_NoSendAfterShutdown ==
    [][(enabled /\ sdReturns >= 1) =>
          \A c \in Callers : pc[c] = "idle" => pc'[c] = "idle"]_vars

\* C23: in every state of the Logger, local logging is enabled or telemetry
\* is enabled with a Provider, and local logging is enabled whenever the
\* configuration disables telemetry; so every log the generator produces is
\* passed to the local logger or to a SendLog call that succeeds.
C23_EveryLogHasSink ==
    /\ [](lg.localLogEnabled \/ (lg.telemetryEnabled /\ lg.telemetry))
    /\ [](~cfgTelemetry => lg.localLogEnabled)
    /\ [][genCount' = genCount + 1 =>
            \/ localWrites' = localWrites + 1
            \/ genPc = "send" /\ sends > genBase /\ errReturns = 0]_vars

C23_Witness ==
    /\ ~cfgTelemetry
    /\ ~cfgLocal
    /\ lg.localLogEnabled
    /\ genCount >= 1
    /\ localWrites = genCount
    /\ sends = 0

\* C24: for every rate the flag or LOG_GENIE_RATE gives, startup does not
\* terminate the process, and the generator runs on a ticker of a strictly
\* positive interval.
C24_PositiveInterval ==
    /\ mainPc # "panic"
    /\ mainPc = "running" => interval > 0

====
